---- MODULE Spec2Model ----
(***************************************************************************)
(* Model of src/main.py: main() and HatebuClipper.run(), the bookmark      *)
(* processing pipeline (authenticate, list, then per bookmark: download,   *)
(* convert, emit-or-save, delete).  The program is single threaded; pc is  *)
(* the position of the one thread.  Every external call (HTTP, file system,*)
(* converter, console) is one step whose outcome is chosen by the          *)
(* environment.  An exception nobody catches ends the process: pc becomes  *)
(* "crashed".                                                              *)
(***************************************************************************)
EXTENDS Integers, Sequences, FiniteSets, TLC

\* ---------------------------------------------------------------- bounds
MaxBookmarks == 2
MaxDay == 1

\* ---------------------------------------------------------------- values
\* Python's None, as a string so that it compares with the other values.
None == "None"

\* bool(v) for the strings and None the program tests with `not` / all().
Truthy(v) == v \notin {None, ""}

\* Values a field of the token dictionary can have: absent key, empty, set.
TokenValues == {None, "", "tk"}

\* The same for the secret, with a value of its own so that the two fields
\* can be told apart.
SecretValues == {None, "", "ts"}

\* A token dictionary as json.load / fetch_access_token return it.
TokenDicts == [oauth_token : TokenValues, oauth_token_secret : SecretValues]

\* The dictionary {} (falsy in Python): neither key is present.
EmptyDict == [oauth_token |-> None, oauth_token_secret |-> None]

\* tokens.json: absent, present with text that is not JSON, or a dictionary.
TokenFiles ==
    [exists : {FALSE}, parseable : {FALSE}, data : {EmptyDict}]
      \cup [exists : {TRUE}, parseable : {FALSE}, data : {EmptyDict}]
      \cup [exists : {TRUE}, parseable : {TRUE}, data : TokenDicts]

NoSession == [exists |-> FALSE, resource_owner_key |-> None, resource_owner_secret |-> None]

\* Titles are character strings; "/" stands for the characters a file name
\* cannot hold.
IllegalChars == {"/"}
Titles == {<<"a">>, <<"a", "/">>, <<"b">>}

\* entry.url: key absent (or no entry at all), empty, or a URL.  The URL of
\* the bookmark at position k of the list is identified with k.  run() never
\* uses the title of a record that has no URL, so one title stands for them.
UrlValues == {None, "", "u"}
BookmarkRecords ==
    [url : {"u"}, title : Titles] \cup [url : UrlValues \ {"u"}, title : {<<"a">>}]

RECURSIVE SeqsUpTo(_, _)
SeqsUpTo(S, n) ==
    IF n = 0 THEN {<<>>}
    ELSE LET shorter == SeqsUpTo(S, n - 1)
         IN  shorter \cup {Append(s, x) : s \in {t \in shorter : Len(t) = n - 1}, x \in S}

BookmarkLists == SeqsUpTo(BookmarkRecords, MaxBookmarks)

\* text_content of a converted page: may be empty.
Contents == {"", "x", "y"}

VARIABLES
    consumer_key, consumer_secret, save_dir, dryrun, delete_bookmark,
    hatena_session, token_file, pc, bookmarks, i, markdown_content,
    files, dir_made, stdout, today, log, data

cfgVars == <<consumer_key, consumer_secret, save_dir, dryrun, delete_bookmark>>
vars == <<consumer_key, consumer_secret, save_dir, dryrun, delete_bookmark,
          hatena_session, token_file, pc, bookmarks, i, markdown_content,
          files, dir_made, stdout, today, log, data>>

\* ---------------------------------------------------------------- helpers
\* One entry of the history of external operations: the operation, the
\* position of the bookmark it is for (0: none), whether it succeeded, and
\* for a conversion the text it gave.
OpC(op, idx, ok, content) == [op |-> op, idx |-> idx, ok |-> ok, content |-> content]
Op(op, idx, ok) == OpC(op, idx, ok, "")

\* pathvalidate.sanitize_filename: drops the characters a file name cannot hold.
RECURSIVE sanitize_filename(_)
sanitize_filename(title) ==
    IF title = <<>> THEN <<>>
    ELSE IF Head(title) \in IllegalChars THEN sanitize_filename(Tail(title))
    ELSE <<Head(title)>> \o sanitize_filename(Tail(title))

\* f"{yyyymmdd}_{safe_title}.md"
file_name(day, title) == <<day, sanitize_filename(title)>>

\* A write that adds the content beside what the name already held.
WriteFile_Appends(fs, name, content) ==
    fs \cup {[name |-> name, content |-> content]}

\* open(file_path, "w") + f.write(content): replaces what the name held.
WriteFile(fs, name, content) ==
    {f \in fs : f.name # name} \cup {[name |-> name, content |-> content]}

Init ==
    /\ consumer_key \in {"", "ck"}
    /\ consumer_secret \in {"", "cs"}
    /\ save_dir \in {None, "", "dir"}
    /\ dryrun \in BOOLEAN
    /\ delete_bookmark \in BOOLEAN
    /\ hatena_session = NoSession
    /\ token_file \in TokenFiles
    /\ pc = "main"
    /\ bookmarks = <<>>
    /\ i = 1
    /\ markdown_content = ""
    /\ files = {}
    /\ dir_made = FALSE
    /\ stdout = <<>>
    /\ today = 0
    /\ log = <<>>
    /\ data = [has_bookmarks |-> FALSE, has_error |-> FALSE]

\* main(): the constructor raises ValueError on a missing key or secret; main
\* catches it, prints the instructions and goes on to clipper.run(), where
\* clipper is unbound.
Main ==
    /\ pc = "main"
    /\ IF Truthy(consumer_key) /\ Truthy(consumer_secret)
       THEN /\ pc' = "authenticate"
            /\ stdout' = stdout
       ELSE /\ pc' = "crashed"
            /\ stdout' = Append(stdout, "Please set HATENA_CONSUMER_KEY")
    /\ UNCHANGED <<cfgVars, hatena_session, token_file, bookmarks, i,
                   markdown_content, files, dir_made, today, log, data>>

\* authenticate() testing the token alone.
AuthOk_TokenOnly(have, tokens) ==
    /\ have
    /\ tokens # EmptyDict
    /\ Truthy(tokens.oauth_token)

\* authenticate(), lines 121-137, applied to what _load_or_create_tokens
\* returned: have = FALSE stands for None.
AuthOk(have, tokens) ==
    /\ have
    /\ tokens # EmptyDict
    /\ Truthy(tokens.oauth_token)
    /\ Truthy(tokens.oauth_token_secret)

\* The session built with the token and its secret exchanged.
SessionFor_Swapped(tokens) ==
    [exists |-> TRUE,
     resource_owner_key |-> tokens.oauth_token_secret,
     resource_owner_secret |-> tokens.oauth_token]

\* OAuth1Session(..., resource_owner_key=access_token,
\* resource_owner_secret=access_token_secret), lines 132-135.
SessionFor(tokens) ==
    [exists |-> TRUE,
     resource_owner_key |-> tokens.oauth_token,
     resource_owner_secret |-> tokens.oauth_token_secret]

\* The rest of authenticate() and the `if not self.authenticate(): return`
\* of run().
Authenticate(have, tokens) ==
    IF AuthOk(have, tokens)
    THEN /\ hatena_session' = SessionFor(tokens)
         /\ pc' = "list"
    ELSE /\ hatena_session' = hatena_session
         /\ pc' = "aborted"

\* _load_or_create_tokens with tokens.json present: json.load either raises
\* (nothing catches it) or returns the dictionary.
LoadTokens ==
    /\ pc = "authenticate"
    /\ token_file.exists
    /\ log' = Append(log, Op("load_tokens", 0, token_file.parseable))
    /\ IF token_file.parseable
       THEN Authenticate(TRUE, token_file.data)
       ELSE /\ pc' = "crashed"
            /\ hatena_session' = hatena_session
    /\ UNCHANGED <<cfgVars, token_file, bookmarks, i, markdown_content,
                   files, dir_made, stdout, today, data>>

\* The handshake started without looking whether tokens.json exists.
RequestToken_IgnoresFile ==
    /\ pc = "authenticate"
    /\ \E ok \in BOOLEAN :
         /\ log' = Append(log, Op("request_token", 0, ok))
         /\ IF ok
            THEN /\ pc' = "verifier"
                 /\ hatena_session' = hatena_session
            ELSE Authenticate(FALSE, EmptyDict)
    /\ UNCHANGED <<cfgVars, token_file, bookmarks, i, markdown_content,
                   files, dir_made, stdout, today, data>>

\* _load_or_create_tokens with tokens.json absent (line 110), then
RequestToken ==
    /\ pc = "authenticate"
    /\ ~token_file.exists
    /\ \E ok \in BOOLEAN :
         /\ log' = Append(log, Op("request_token", 0, ok))
         /\ IF ok
            THEN /\ pc' = "verifier"
                 /\ hatena_session' = hatena_session
            ELSE Authenticate(FALSE, EmptyDict)
    /\ UNCHANGED <<cfgVars, token_file, bookmarks, i, markdown_content,
                   files, dir_made, stdout, today, data>>

\* _get_access_tokens, step 2: the authorization URL is printed and input()
\* blocks until the operator enters the verifier.
EnterVerifier ==
    /\ pc = "verifier"
    /\ pc' = "access_token"
    /\ stdout' = Append(stdout, "Please access the following URL to authenticate:")
    /\ log' = Append(log, Op("verifier", 0, TRUE))
    /\ UNCHANGED <<cfgVars, hatena_session, token_file, bookmarks, i,
                   markdown_content, files, dir_made, today, data>>

\* What fetch_access_token can return: the library raises when the response
\* has no oauth_token.
AccessTokenDicts == {t \in TokenDicts : t.oauth_token # None}

\* Step 3 with tokens.json opened for writing before the exchange is known to
\* have succeeded.
AccessToken_WritesOnFailure ==
    /\ pc = "access_token"
    /\ \E ok \in BOOLEAN, oauth_tokens \in AccessTokenDicts :
         IF ok
         THEN /\ token_file' = [exists |-> TRUE, parseable |-> TRUE, data |-> oauth_tokens]
              /\ log' = log \o <<Op("access_token", 0, TRUE), Op("token_write", 0, TRUE)>>
              /\ Authenticate(TRUE, oauth_tokens)
         ELSE /\ token_file' = [exists |-> TRUE, parseable |-> FALSE, data |-> EmptyDict]
              /\ log' = Append(log, Op("access_token", 0, FALSE))
              /\ Authenticate(FALSE, EmptyDict)
    /\ UNCHANGED <<cfgVars, bookmarks, i, markdown_content, files, dir_made,
                   stdout, today, data>>

\* _get_access_tokens, step 3: fetch_access_token, then json.dump to tokens.json.
AccessToken ==
    /\ pc = "access_token"
    /\ \E ok \in BOOLEAN, oauth_tokens \in AccessTokenDicts :
         IF ok
         THEN /\ token_file' = [exists |-> TRUE, parseable |-> TRUE, data |-> oauth_tokens]
              /\ log' = log \o <<Op("access_token", 0, TRUE), Op("token_write", 0, TRUE)>>
              /\ Authenticate(TRUE, oauth_tokens)
         ELSE /\ token_file' = token_file
              /\ log' = Append(log, Op("access_token", 0, FALSE))
              /\ Authenticate(FALSE, EmptyDict)
    /\ UNCHANGED <<cfgVars, bookmarks, i, markdown_content, files, dir_made,
                   stdout, today, data>>

\* What the search endpoint can answer with: the bookmarks key present or
\* not, the error key present or not, and the list.
SearchResponses ==
    [has_bookmarks : {TRUE}, has_error : {FALSE}, bookmarks : BookmarkLists \ {<<>>}]
      \cup [has_bookmarks : BOOLEAN, has_error : BOOLEAN, bookmarks : {<<>>}]

\* data.get("bookmarks", [])
GetBookmarks(resp) == IF resp.has_bookmarks THEN resp.bookmarks ELSE <<>>

\* An answer with an error key treated as a failed search.
AfterSearch_ErrorAborts(resp) ==
    IF resp.has_error THEN "aborted"
    ELSE IF GetBookmarks(resp) = <<>> THEN "done" ELSE "loop"

\* Lines 151-156 and 222-225: data.get("bookmarks", []) is returned, with or
\* without an error key; run() returns on an empty list.
AfterSearch(resp) == IF GetBookmarks(resp) = <<>> THEN "done" ELSE "loop"

\* A failed search tried again.
AfterSearchFailure_Retry == "list"

\* Lines 157-159 and 222-223: the failure is caught, None is returned and
\* run() returns.
AfterSearchFailure == "aborted"

\* _fetch_bookmark_list and `if not bookmarks: return` of run().  A failed
\* request or a body that is not JSON gives None.
FetchBookmarkList ==
    /\ pc = "list"
    /\ IF ~hatena_session.exists
       THEN /\ pc' = "aborted"
            /\ UNCHANGED <<bookmarks, data, log>>
       ELSE \E ok \in BOOLEAN, resp \in SearchResponses :
              IF ok
              THEN /\ data' = [has_bookmarks |-> resp.has_bookmarks,
                               has_error |-> resp.has_error]
                   /\ bookmarks' = GetBookmarks(resp)
                   /\ log' = Append(log, Op("search", 0, TRUE))
                   /\ pc' = AfterSearch(resp)
              ELSE /\ log' = Append(log, Op("search", 0, FALSE))
                   /\ pc' = AfterSearchFailure
                   /\ UNCHANGED <<bookmarks, data>>
    /\ UNCHANGED <<cfgVars, hatena_session, token_file, i, markdown_content,
                   files, dir_made, stdout, today>>

\* The loop with `break` in the place of `continue` at line 233.
NextBookmark_SkipEndsLoop ==
    /\ pc = "loop"
    /\ IF i > Len(bookmarks)
       THEN /\ pc' = "done"
            /\ UNCHANGED <<i, log>>
       ELSE IF ~Truthy(bookmarks[i].url)
       THEN /\ pc' = "done"
            /\ i' = i
            /\ log' = Append(log, Op("skip", i, TRUE))
       ELSE /\ pc' = "fetch"
            /\ UNCHANGED <<i, log>>
    /\ UNCHANGED <<cfgVars, hatena_session, token_file, bookmarks,
                   markdown_content, files, dir_made, stdout, today, data>>

\* The head of `for bookmark in bookmarks` with lines 227-233: the loop ends,
\* or a record without a URL is skipped, or the record goes on to the download.
NextBookmark ==
    /\ pc = "loop"
    /\ IF i > Len(bookmarks)
       THEN /\ pc' = "done"
            /\ UNCHANGED <<i, log>>
       ELSE IF ~Truthy(bookmarks[i].url)
       THEN /\ pc' = "loop"
            /\ i' = i + 1
            /\ log' = Append(log, Op("skip", i, TRUE))
       ELSE /\ pc' = "fetch"
            /\ UNCHANGED <<i, log>>
    /\ UNCHANGED <<cfgVars, hatena_session, token_file, bookmarks,
                   markdown_content, files, dir_made, stdout, today, data>>

\* Line 246 with the test inverted.
AfterSave_Inverted == IF delete_bookmark THEN "done" ELSE "delete"

\* Line 246-247 left out: _delete_bookmark is always called.
AfterSave_AlwaysDelete == "delete"

\* `if not self.delete_bookmark: return`, then the call of _delete_bookmark.
AfterSave == IF ~delete_bookmark THEN "done" ELSE "delete"

\* _download_and_convert, lines 164-167: requests.get and raise_for_status.
\* Neither _download_and_convert nor run() catches what they raise.
Download ==
    /\ pc = "fetch"
    /\ \E ok \in BOOLEAN :
         /\ log' = Append(log, Op("fetch", i, ok))
         /\ pc' = IF ok THEN "convert" ELSE "crashed"
    /\ UNCHANGED <<cfgVars, hatena_session, token_file, bookmarks, i,
                   markdown_content, files, dir_made, stdout, today, data>>

\* _download_and_convert, lines 169-177, and `if markdown_content:` of run():
\* a converter that raises gives "", like a page that converts to nothing.
Convert ==
    /\ pc = "convert"
    /\ \E ok \in BOOLEAN, text_content \in Contents :
         /\ markdown_content' = IF ok THEN text_content ELSE ""
         /\ log' = Append(log, OpC("convert", i, ok, markdown_content'))
         /\ pc' = IF Truthy(markdown_content') THEN "save" ELSE AfterSave
    /\ UNCHANGED <<cfgVars, hatena_session, token_file, bookmarks, i,
                   files, dir_made, stdout, today, data>>

\* How the file system can answer _save_markdown.
SaveOutcomes == {"ok", "mkdir_error", "write_error"}

\* _save_markdown raises when os.makedirs or open/write does.
SaveRaises(outcome) == Truthy(save_dir) /\ ~dryrun /\ outcome # "ok"

\* _save_markdown without the `if self.dryrun: return` of lines 191-193.
SaveMarkdown_IgnoresDryrun(title, content, outcome) ==
    IF ~Truthy(save_dir)
    THEN /\ UNCHANGED <<files, dir_made>>
         /\ log' = log
    ELSE /\ dir_made' = (dir_made \/ outcome # "mkdir_error")
         /\ files' = IF outcome = "ok"
                     THEN WriteFile(files, file_name(today, title), content)
                     ELSE files
         /\ log' = Append(log, Op("save", i, outcome = "ok"))

\* _save_markdown(title, content).
SaveMarkdown(title, content, outcome) ==
    IF ~Truthy(save_dir)
    THEN /\ UNCHANGED <<files, dir_made>>
         /\ log' = log
    ELSE IF dryrun
    THEN /\ UNCHANGED <<files, dir_made>>
         /\ log' = Append(log, Op("dryrun_save", i, TRUE))
    ELSE /\ dir_made' = (dir_made \/ outcome # "mkdir_error")
         /\ files' = IF outcome = "ok"
                     THEN WriteFile(files, file_name(today, title), content)
                     ELSE files
         /\ log' = Append(log, Op("save", i, outcome = "ok"))

\* Lines 238-244 with the printing suppressed under dryrun.
SaveOrEmit_DryrunSilent ==
    /\ pc = "save"
    /\ IF ~Truthy(save_dir)
       THEN /\ stdout' = IF dryrun THEN stdout
                         ELSE stdout \o <<"--- Markdown Output ---", markdown_content,
                                          "--- End of Markdown ---">>
            /\ log' = IF dryrun THEN log ELSE Append(log, Op("emit", i, TRUE))
            /\ pc' = AfterSave
            /\ UNCHANGED <<files, dir_made>>
       ELSE \E outcome \in SaveOutcomes :
              /\ SaveMarkdown(bookmarks[i].title, markdown_content, outcome)
              /\ pc' = IF SaveRaises(outcome) THEN "crashed" ELSE AfterSave
              /\ stdout' = stdout
    /\ UNCHANGED <<cfgVars, hatena_session, token_file, bookmarks, i,
                   markdown_content, today, data>>

\* Lines 238-244 of run(): print between the markers, or _save_markdown.
SaveOrEmit ==
    /\ pc = "save"
    /\ IF ~Truthy(save_dir)
       THEN /\ stdout' = stdout \o <<"--- Markdown Output ---", markdown_content,
                                     "--- End of Markdown ---">>
            /\ log' = Append(log, Op("emit", i, TRUE))
            /\ pc' = AfterSave
            /\ UNCHANGED <<files, dir_made>>
       ELSE \E outcome \in SaveOutcomes :
              /\ SaveMarkdown(bookmarks[i].title, markdown_content, outcome)
              /\ pc' = IF SaveRaises(outcome) THEN "crashed" ELSE AfterSave
              /\ stdout' = stdout
    /\ UNCHANGED <<cfgVars, hatena_session, token_file, bookmarks, i,
                   markdown_content, today, data>>

\* _delete_bookmark(url) and the end of the loop body.  raise_for_status on
\* the DELETE response is not caught.
DeleteBookmark ==
    /\ pc = "delete"
    /\ IF ~hatena_session.exists
       THEN /\ log' = log
            /\ pc' = "loop"
            /\ i' = i + 1
       ELSE IF dryrun
       THEN /\ log' = Append(log, Op("dryrun_delete", i, TRUE))
            /\ pc' = "loop"
            /\ i' = i + 1
       ELSE \E ok \in BOOLEAN :
              /\ log' = Append(log, Op("delete", i, ok))
              /\ pc' = IF ok THEN "loop" ELSE "crashed"
              /\ i' = IF ok THEN i + 1 ELSE i
    /\ UNCHANGED <<cfgVars, hatena_session, token_file, bookmarks,
                   markdown_content, files, dir_made, stdout, today, data>>

\* Midnight passes while a page downloads (datetime.date.today() is read by
\* each _save_markdown).
Tick ==
    /\ pc = "fetch"
    /\ today < MaxDay
    /\ today' = today + 1
    /\ UNCHANGED <<cfgVars, hatena_session, token_file, pc, bookmarks, i,
                   markdown_content, files, dir_made, stdout, log, data>>

Next ==
    \/ Main
    \/ LoadTokens
    \/ RequestToken
    \/ EnterVerifier
    \/ AccessToken
    \/ FetchBookmarkList
    \/ NextBookmark
    \/ Download
    \/ Convert
    \/ SaveOrEmit
    \/ DeleteBookmark
    \/ Tick

Spec == Init /\ [][Next]_vars

\* ------------------------------------------------------- reading the log
Did(op, k) == \E n \in DOMAIN log : log[n].op = op /\ log[n].idx = k
DidOk(op, k) == \E n \in DOMAIN log : log[n].op = op /\ log[n].idx = k /\ log[n].ok
Failed(op, k) == \E n \in DOMAIN log : log[n].op = op /\ log[n].idx = k /\ ~log[n].ok
Count(op) == Cardinality({n \in DOMAIN log : log[n].op = op})

HasUrl(k) == Truthy(bookmarks[k].url)
UrlIdx == {k \in DOMAIN bookmarks : HasUrl(k)}
LaterUrlIdx(k) == {m \in UrlIdx : m > k}
Ended == pc \in {"done", "aborted", "crashed"}

\* The artifact the save of bookmark k wrote is in the archive.
HasFileOf(k) == \E f \in files : f.name[2] = sanitize_filename(bookmarks[k].title)

\* ------------------------------------------------------------------ claims

\* C1: when the content fetch of a bookmark fails, no file is written and no
\* DELETE is issued for it, the run is not aborted, and with delete_bookmark
\* on every later bookmark that has a URL is still fetched.
C1_FetchFailureIsolated ==
    \A k \in DOMAIN bookmarks :
        Failed("fetch", k) =>
            /\ ~Did("save", k)
            /\ ~Did("delete", k)
            /\ pc # "crashed"
            /\ (Ended /\ delete_bookmark) => \A m \in LaterUrlIdx(k) : Did("fetch", m)

\* C2: when the conversion of a fetched page fails, neither a save/emit nor
\* a DELETE is performed for that bookmark: a DELETE is only ever issued for
\* a bookmark whose fetch and convert both succeeded.
C2_DeleteOnlyAfterConvert ==
    \A k \in DOMAIN bookmarks :
        /\ Failed("convert", k) =>
               ~Did("save", k) /\ ~Did("emit", k) /\ ~Did("delete", k)
        /\ Did("delete", k) => DidOk("fetch", k) /\ DidOk("convert", k)

\* C3: when the DELETE of a bookmark fails, the file written for it stays,
\* the run does not end there, and the remaining bookmarks are processed.
C3_DeleteFailureIsolated ==
    \A k \in DOMAIN bookmarks :
        Failed("delete", k) =>
            /\ DidOk("save", k) => HasFileOf(k)
            /\ pc # "crashed"
            /\ Ended => \A m \in LaterUrlIdx(k) : Did("fetch", m)

\* The bookmarks a run that reaches the end of run() has gone through: all
\* that have a URL, or the first of them when delete_bookmark is off.
FirstUrl == CHOOSE k \in UrlIdx : \A m \in UrlIdx : k <= m
Processed ==
    IF delete_bookmark THEN UrlIdx
    ELSE IF UrlIdx = {} THEN {} ELSE {FirstUrl}

ItemLog == SelectSeq(log, LAMBDA e : e.idx > 0)
ItemOps == [n \in DOMAIN ItemLog |-> <<ItemLog[n].op, ItemLog[n].idx>>]

\* fetch, convert, save, delete of bookmark 1, then of bookmark 2, ...
Pipeline == <<"fetch", "convert", "save", "delete">>
ExpectedOps(N) ==
    [n \in 1..(4 * N) |-> <<Pipeline[((n - 1) % 4) + 1], ((n - 1) \div 4) + 1>>]

IsPrefix(s, t) == Len(s) <= Len(t) /\ \A n \in DOMAIN s : s[n] = t[n]

\* delete_bookmark on, dryrun off, a save directory, a list whose records
\* all have a URL, and no operation on a bookmark has failed.
C5_Case ==
    /\ delete_bookmark /\ ~dryrun /\ Truthy(save_dir)
    /\ bookmarks # <<>>
    /\ UrlIdx = DOMAIN bookmarks
    /\ \A n \in DOMAIN ItemLog : ItemLog[n].ok

\* C5: in that case run() performs exactly N fetch, N convert, N save and
\* N delete operations, item by item in list order, each item's delete
\* before the next item's fetch.
C5_ExactlyNSequences ==
    C5_Case =>
        /\ IsPrefix(ItemOps, ExpectedOps(Len(bookmarks)))
        /\ pc = "done" => ItemOps = ExpectedOps(Len(bookmarks))

\* The same for the runs in which every conversion yields text that is not
\* empty: there the N sequences do occur, in order.
NSequencesWhenContent ==
    (C5_Case /\ \A n \in DOMAIN ItemLog :
                    ItemLog[n].op = "convert" => Truthy(ItemLog[n].content)) =>
        /\ IsPrefix(ItemOps, ExpectedOps(Len(bookmarks)))
        /\ pc = "done" => ItemOps = ExpectedOps(Len(bookmarks))

NSequencesReached ==
    /\ C5_Case /\ pc = "done" /\ Len(bookmarks) = 2
    /\ ItemOps = ExpectedOps(2)

\* C6: with delete_bookmark off, run() processes exactly the first bookmark
\* that has a URL (fetch, convert, save or emit of its content) and stops:
\* no later bookmark is fetched, converted or saved.
C6_SingleItem ==
    ~delete_bookmark =>
        /\ \A n \in DOMAIN ItemLog :
              ItemLog[n].op # "skip" => ItemLog[n].idx = FirstUrl
        /\ \A op \in {"fetch", "convert", "save", "dryrun_save", "emit"} : Count(op) <= 1
        /\ (pc = "done" /\ UrlIdx # {}) =>
              /\ i = FirstUrl
              /\ DidOk("fetch", FirstUrl)
              /\ Did("convert", FirstUrl)
              /\ Truthy(markdown_content) =>
                    IF ~Truthy(save_dir) THEN Did("emit", FirstUrl)
                    ELSE IF dryrun THEN Did("dryrun_save", FirstUrl)
                    ELSE DidOk("save", FirstUrl)

C6_Witness ==
    /\ ~delete_bookmark /\ pc = "done" /\ Len(bookmarks) = 2
    /\ UrlIdx = {1, 2}
    /\ DidOk("save", 1)

\* C7: with delete_bookmark off no DELETE is ever issued, whatever the list,
\* dryrun and the outcomes of fetch, convert and save.
C7_NoDeleteWhenDisabled ==
    ~delete_bookmark =>
        \A n \in DOMAIN log : log[n].op \notin {"delete", "dryrun_delete"}

C7_Witness ==
    /\ ~delete_bookmark /\ ~dryrun /\ pc = "done"
    /\ Did("emit", 1)

\* C8: a search answer whose bookmarks array is missing or empty, with or
\* without an error field, gives an empty list, and the run ends cleanly
\* with no fetch, convert, save or delete.
C8_EmptyListEndsCleanly ==
    (DidOk("search", 0) /\ (~data.has_bookmarks \/ bookmarks = <<>>)) =>
        /\ bookmarks = <<>>
        /\ pc = "done"
        /\ ItemLog = <<>>
        /\ files = {}

C8_Witness ==
    /\ DidOk("search", 0) /\ ~data.has_bookmarks /\ data.has_error
    /\ pc = "done"

\* The first bookmark after k that has a URL.
NextUrl(k) == CHOOSE m \in LaterUrlIdx(k) : \A n \in LaterUrlIdx(k) : m <= n

\* C9: a record with no URL (no entry, no or an empty entry.url) causes no
\* fetch, convert, save or delete for it and does not end the batch: the
\* records after it are still processed, also with delete_bookmark off.
C9_NoUrlSkipped ==
    \A k \in DOMAIN bookmarks \ UrlIdx :
        /\ \A n \in DOMAIN log : log[n].idx = k => log[n].op = "skip"
        /\ (Did("skip", k) /\ LaterUrlIdx(k) # {}) =>
              \/ pc = "loop" /\ i \in (k + 1)..NextUrl(k)
              \/ pc = "fetch" /\ i = NextUrl(k)
              \/ Did("fetch", NextUrl(k))
        /\ (pc = "done" /\ (delete_bookmark \/ UrlIdx = {} \/ k < FirstUrl)) =>
              Did("skip", k)

C9_Witness ==
    /\ ~delete_bookmark /\ pc = "done" /\ Len(bookmarks) = 2
    /\ bookmarks[1].url = "" /\ Did("skip", 1)
    /\ HasUrl(2) /\ DidOk("fetch", 2)

\* C10: when the search request fails it is not retried, the run aborts and
\* no bookmark is fetched, converted, saved or deleted.
C10_SearchFailureAborts ==
    Failed("search", 0) =>
        /\ pc = "aborted"
        /\ Count("search") = 1
        /\ ItemLog = <<>>
        /\ files = {}

C10_Witness == Failed("search", 0) /\ pc = "aborted" /\ hatena_session.exists
\* The pair the session was built with equals the pair tokens.json holds.
SessionIsFilePair ==
    /\ hatena_session.exists
    /\ hatena_session.resource_owner_key = token_file.data.oauth_token
    /\ hatena_session.resource_owner_secret = token_file.data.oauth_token_secret

\* tokens.json was there when the run started: it is there and the run has
\* not written it.
FileAtStart == token_file.exists /\ ~Did("token_write", 0)

\* authenticate() has returned.
PastAuth == pc \in {"list", "loop", "fetch", "convert", "save", "delete", "done", "aborted"}

\* C11: if tokens.json exists with well-formed JSON holding both token
\* fields, the loaded pair is the file's content and the handshake is not
\* started; if the file is absent nothing is loaded, the handshake is started
\* exactly once and its result is the pair used.
C11_CredentialLoading ==
    /\ FileAtStart =>
          /\ \A n \in DOMAIN log : log[n].op \notin {"request_token", "verifier", "access_token"}
          /\ (PastAuth /\ token_file.parseable
                /\ Truthy(token_file.data.oauth_token)
                /\ Truthy(token_file.data.oauth_token_secret)) => SessionIsFilePair
    /\ (~FileAtStart /\ pc \notin {"main", "authenticate"} /\ log # <<>>) =>
          /\ ~Did("load_tokens", 0)
          /\ Count("request_token") = 1
          /\ Count("access_token") <= 1
          /\ hatena_session.exists => DidOk("access_token", 0) /\ SessionIsFilePair

C11_Witness ==
    /\ ~FileAtStart /\ pc = "list" /\ DidOk("access_token", 0)
    /\ SessionIsFilePair
\* C12: when the handshake fails at step 1 or step 3 the authenticator gives
\* absent without retrying a step, no credential file is written, the run
\* aborts, and no search, content fetch or delete request is made.
C12_HandshakeFailureAborts ==
    (Failed("request_token", 0) \/ Failed("access_token", 0)) =>
        /\ pc = "aborted"
        /\ \A op \in {"request_token", "verifier", "access_token"} : Count(op) <= 1
        /\ ~token_file.exists
        /\ ~Did("token_write", 0)
        /\ ~hatena_session.exists
        /\ \A n \in DOMAIN log : log[n].op \notin {"search", "fetch", "delete"}

C12_Witness ==
    /\ pc = "aborted" /\ DidOk("request_token", 0) /\ Did("verifier", 0)
    /\ Failed("access_token", 0)

\* C13: with the consumer key or secret missing or empty, main() prints the
\* instructions and ends without an uncaught exception, and touches neither
\* the credential file nor the network: run() is never entered.
C13_ConfigErrorHandled ==
    ((~Truthy(consumer_key) \/ ~Truthy(consumer_secret)) /\ pc # "main") =>
        /\ pc # "crashed"
        /\ stdout = <<"Please set HATENA_CONSUMER_KEY">>
        /\ log = <<>>
        /\ ~hatena_session.exists

\* C14: when tokens.json exists but its content is not parseable, loading
\* gives absent as a normal value: no exception leaves the credential load
\* or authenticate().
C14_UnparseableIsAbsent ==
    Failed("load_tokens", 0) => pc # "crashed"

\* A pair with both fields set was obtained, from the file or the exchange.
UsablePairObtained ==
    /\ DidOk("load_tokens", 0) \/ DidOk("access_token", 0)
    /\ token_file.exists /\ token_file.parseable
    /\ Truthy(token_file.data.oauth_token)
    /\ Truthy(token_file.data.oauth_token_secret)

\* C15: a session exists only if a pair with token and secret both non-empty
\* was obtained (cached or negotiated); with a field missing or empty the run
\* goes to ABORTED; no search or delete request is issued without a session.
C15_SessionNeedsUsablePair ==
    /\ hatena_session.exists =>
          /\ UsablePairObtained
          /\ Truthy(hatena_session.resource_owner_key)
          /\ Truthy(hatena_session.resource_owner_secret)
    /\ ((DidOk("load_tokens", 0) \/ DidOk("access_token", 0)) /\ ~UsablePairObtained) =>
          pc = "aborted" /\ ~hatena_session.exists
    /\ \A n \in DOMAIN log :
          log[n].op \in {"search", "delete"} => hatena_session.exists

C15_Witness ==
    /\ pc = "aborted" /\ DidOk("access_token", 0)
    /\ token_file.data.oauth_token = "tk" /\ token_file.data.oauth_token_secret = ""
\* Every external call returns and the operator enters a verifier: a step
\* that can be taken is taken.
FairSpec == Spec /\ WF_vars(Next)

\* Under that assumption every run ends: run() returns or an exception
\* leaves it.
RunEnds == <>Ended

\* C16: every run reaches DONE or ABORTED; ABORTED is reached only from the
\* authentication or the listing, so once an item is being processed no
\* failure at fetch, convert, save or delete ends the run in anything other
\* than DONE.
C16_EndsDoneOrAborted ==
    /\ pc = "aborted" => ItemLog = <<>>
    /\ (Ended /\ ItemLog # <<>>) => pc = "done"
\* C17: the credential file is written at most once per run and only after
\* the access-token exchange succeeded; a run that starts with the file
\* present never writes or replaces it and never starts the handshake, also
\* when the file lacks a token field (the run aborts); dryrun plays no part.
C17_CredentialWrittenOnce ==
    [][ /\ token_file.exists =>
              /\ token_file' = token_file
              /\ pc' \notin {"verifier", "access_token"}
              /\ \A n \in DOMAIN log' \ DOMAIN log :
                    log'[n].op \notin {"request_token", "verifier", "access_token"}
        /\ token_file' # token_file =>
              /\ pc = "access_token"
              /\ log' = log \o <<Op("access_token", 0, TRUE), Op("token_write", 0, TRUE)>>
        /\ (/\ pc = "authenticate" /\ token_file.exists /\ token_file.parseable
            /\ ~(Truthy(token_file.data.oauth_token)
                   /\ Truthy(token_file.data.oauth_token_secret))) =>
              pc' = "aborted" ]_vars

C17_Witness ==
    /\ dryrun /\ pc = "done"
    /\ Count("token_write") = 1 /\ token_file.exists
\* What the program prints besides the converted pages.
Prompts == {"Please set HATENA_CONSUMER_KEY",
            "Please access the following URL to authenticate:"}
MarkdownOut == SelectSeq(stdout, LAMBDA line : line \notin Prompts)

\* The conversions that gave text, in order, without the one whose output
\* step is still to come.
WithContent == SelectSeq(log, LAMBDA e : e.op = "convert" /\ Truthy(e.content))
DueOnStdout ==
    IF pc = "save" THEN SubSeq(WithContent, 1, Len(WithContent) - 1) ELSE WithContent

RECURSIVE Framed(_)
Framed(es) ==
    IF es = <<>> THEN <<>>
    ELSE <<"--- Markdown Output ---", Head(es).content, "--- End of Markdown ---">>
           \o Framed(Tail(es))

\* C18: with save_dir unset or empty, the content of every item whose
\* conversion yields content is printed exactly once between the begin and
\* end markers, and no file or directory is created, dryrun or not.
C18_PreviewMode ==
    ~Truthy(save_dir) =>
        /\ MarkdownOut = Framed(DueOnStdout)
        /\ files = {}
        /\ ~dir_made
        /\ \A n \in DOMAIN log : log[n].op \notin {"save", "dryrun_save"}

C18_Witness ==
    /\ save_dir = "" /\ dryrun /\ pc = "done"
    /\ Len(WithContent) = 2 /\ Count("emit") = 2
    /\ WithContent[1].content # WithContent[2].content
\* The text the conversion of bookmark k gave.
ConvContent(k) ==
    LET n == CHOOSE m \in DOMAIN log : log[m].op = "convert" /\ log[m].idx = k
    IN  log[n].content

\* C19: the archive write is an overwrite keyed by the computed name (date
\* plus sanitized title): after content B is written under a name, the
\* archive holds exactly one artifact of that name, with content B, whatever
\* the name held before, and the other artifacts are as they were; writing
\* what the name already holds leaves the archive as it is.
C19_OverwriteByName ==
    [][ (pc = "save" /\ log' = Append(log, Op("save", i, TRUE))) =>
            LET name == <<today, sanitize_filename(bookmarks[i].title)>>
                new == [name |-> name, content |-> markdown_content]
            IN  /\ {f \in files' : f.name = name} = {new}
                /\ {f \in files' : f.name # name} = {f \in files : f.name # name}
                /\ new \in files => files' = files ]_vars

\* Two bookmarks whose titles differ only in an illegal character, saved on
\* the same day with different contents: one artifact, holding the second.
C19_Witness ==
    /\ Len(bookmarks) = 2 /\ today = 0
    /\ bookmarks[1].title = <<"a", "/">> /\ bookmarks[2].title = <<"a">>
    /\ DidOk("save", 1) /\ DidOk("save", 2)
    /\ ConvContent(1) = "x" /\ ConvContent(2) = "y"
    /\ files = {[name |-> <<0, <<"a">>>>, content |-> "y"]}
\* C20: in a run with dryrun off, a save directory and delete_bookmark on,
\* whatever the list (titles may repeat), when the run has ended every
\* bookmark for which a DELETE was issued has an artifact in the save
\* directory holding that bookmark's converted content.
C20_ArchiveComplete ==
    (~dryrun /\ Truthy(save_dir) /\ delete_bookmark /\ Ended) =>
        \A k \in DOMAIN bookmarks :
            Did("delete", k) =>
                \E f \in files :
                    /\ f.name[2] = sanitize_filename(bookmarks[k].title)
                    /\ f.content = ConvContent(k)
====
